---- MODULE Spec2Model ----
(***************************************************************************)
(* Job Queue, durable ledger, Celery workers and Queue Monitor of the      *)
(* message-forwarding backend (services/queue_manager.py,                  *)
(* tasks/celery_config.py, tasks/forwarding_tasks.py,                      *)
(* services/feature_gating.py).                                            *)
(***************************************************************************)
EXTENDS Integers, FiniteSets, Sequences, Bags, TLC

(* ------------------------------ bounds --------------------------------- *)
MaxJobs == 1            \* ledger rows ever created
MaxRetriesArg == 1      \* largest max_retries passed to enqueue_task
NumWorkers == 1         \* worker processes pulling from the broker
MaxShortSteps == 2      \* short clock steps a timestamp is followed through
TickStep == 10          \* minutes per short clock step

(* ------------------------- program constants --------------------------- *)
StuckMinutes == 10          \* _check_stuck_tasks: timedelta(minutes=10)
RetentionDays == 7          \* cleanup_old_tasks(days_old=7)
TaskMaxRetries == 3         \* celery task max_retries (self.max_retries)
ResultExpiresMinutes == 60  \* result_expires=3600 seconds
RetentionMinutes == RetentionDays * 24 * 60

NULL == "NULL"
NoTime == 0 - 1

JobIds == 1..MaxJobs
Workers == 1..NumWorkers

(* users table: id -> plan string; user 0 does not exist *)
Users == {1, 2, 3, 4}
user_plan(u) ==
    CASE u = 1 -> "free"
      [] u = 2 -> "pro"
      [] u = 3 -> "elite"
      [] OTHER -> "gold"

PlanType == {"free", "pro", "elite"}

(* FeatureGating.get_user_plan *)
get_user_plan(u) ==
    IF u \notin Users THEN NULL
    ELSE IF user_plan(u) \in PlanType THEN user_plan(u) ELSE "free"

(* FeatureGating._load_plan_limits: max_queue_priority *)
max_queue_priority(plan) ==
    CASE plan = "free" -> 1
      [] plan = "pro" -> 2
      [] plan = "elite" -> 3

(* QueueManager._get_plan_priority *)
_get_plan_priority(plan) ==
    CASE plan = "free" -> 1
      [] plan = "pro" -> 2
      [] plan = "elite" -> 3
      [] OTHER -> 1

(* validate_queue_priority without the comparison against the plan limit  *)
validate_queue_priority_uncapped(u, requested_priority) ==
    LET plan == get_user_plan(u) IN
    IF plan = NULL THEN [allowed |-> FALSE, max_priority |-> 0]
    ELSE [allowed |-> TRUE, max_priority |-> max_queue_priority(plan)]

(* FeatureGating.validate_queue_priority *)
validate_queue_priority(u, requested_priority) ==
    LET plan == get_user_plan(u) IN
    IF plan = NULL THEN [allowed |-> FALSE, max_priority |-> 0]
    ELSE IF requested_priority > max_queue_priority(plan)
         THEN [allowed |-> FALSE, max_priority |-> max_queue_priority(plan)]
         ELSE [allowed |-> TRUE, max_priority |-> max_queue_priority(plan)]

(* QueueManager.queue_names.get(priority, "low_priority") *)
queue_names(priority) ==
    CASE priority = 1 -> "low_priority"
      [] priority = 2 -> "medium_priority"
      [] priority = 3 -> "high_priority"
      [] OTHER -> "low_priority"

(* QueueManager.task_types *)
task_types == {"forward_message", "send_message", "bulk_forward",
               "session_check", "cleanup"}

(* enqueue_task: effective priority of a request (None = plan default) *)
NoPriority == 0 - 99
effective_priority(u, priority) ==
    LET p0 == IF priority = NoPriority
              THEN _get_plan_priority(get_user_plan(u)) ELSE priority
        priority_check == validate_queue_priority(u, p0)
    IN  IF ~priority_check.allowed THEN priority_check.max_priority ELSE p0

(* ------------------------------ state ---------------------------------- *)
VARIABLES
    ledger,     \* queue_tasks table: task_id -> row (absent = no row)
    nextId,     \* next task id enqueue_task will create
    broker,     \* bag of job messages held by the broker
    backend,    \* celery result backend: task_id -> [status, result]
    running,    \* worker -> message whose handler it is executing
    revoked,    \* task ids the running workers hold as revoked (in memory)
    ret,        \* outcome of the last QueueManager call
    cleanCancelled, \* history: jobs cancelled while pending and unclaimed
    enq,        \* enqueue_task call between its ledger commit and send_task
    cleaned,    \* history: task ids whose row cleanup_old_tasks deleted
    accounts,   \* telegram_accounts table: account id -> row (absent = no row)
    nextAccountId, \* next id of the telegram_accounts sequence
    clients,    \* TelegramClient instance -> its clients dict
    conns,      \* pyrogram Client objects that are connected
    nextObj,    \* next Client object a constructor call creates
    initialized,\* SessionManager instance -> _initialized
    sweep,      \* health checker instance -> snapshot entries still to check
    pairs,      \* forwarding_pairs table: pair id -> row
    logs,       \* message_logs table: set of rows written
    out,        \* outcome of the last session, account, policy or executor call
    retrying,   \* retry_failed_task call -> the row it read, until it commits
    qm,         \* QueueManager: _initialized and the initialize calls running
    loops       \* background asyncio tasks alive: monitor and health loops

queueVars == <<ledger, nextId, broker, backend, running, revoked, ret,
               cleanCancelled, enq, cleaned>>

platformVars == <<accounts, nextAccountId, clients, conns, nextObj,
                  initialized, sweep, pairs, logs, out>>

managerVars == <<retrying, qm, loops>>

vars == <<ledger, nextId, broker, backend, running, revoked, ret,
          cleanCancelled, enq, cleaned, accounts, nextAccountId, clients,
          conns, nextObj,
          initialized, sweep, pairs, logs, out, retrying, qm, loops>>

(* Timestamps are minutes in the frame of the current instant: utcnow()   *)
(* is always `now`, and the passing of d minutes moves every stored        *)
(* timestamp d minutes back.  A timestamp older than every window the      *)
(* code compares against (the retention window is the longest) is kept    *)
(* as 0.                                                                   *)
now == RetentionMinutes + TickStep

ClockSteps == {TickStep, RetentionMinutes}

(* outcome of a QueueManager call: operation, its arguments, its result    *)
Ret(op, task_id, value) ==
    [op |-> op, task_id |-> task_id, value |-> value,
     user_id |-> 0, priority |-> 0]

NoRet == Ret("none", 0, NULL)

NoResult == [status |-> "PENDING", result |-> NULL, at |-> NoTime]

NoCall == [task_id |-> 0]

Msg(id, name, queue, retries) ==
    [task_id |-> id, name |-> name, queue |-> queue, retries |-> retries]

HasRow(id) == id \in DOMAIN ledger

Put(id, row) == [j \in (DOMAIN ledger) \cup {id} |->
                    IF j = id THEN row ELSE ledger[j]]

(* bounds and values of the account and session state                     *)
MaxAccounts == 2           \* telegram_accounts rows ever created
NumInstances == 2          \* SessionManager instances in one worker process
MaxClients == 3            \* pyrogram Client objects ever constructed
MaxTelegramAccounts == 1   \* User.max_telegram_accounts column default

AcctIds == 1..MaxAccounts
Instances == 1..NumInstances

(* the two SessionManager objects of a worker process                      *)
WorkerInstance == 1        \* celery_worker.py: session_manager
TaskInstance == 2          \* tasks/forwarding_tasks.py: session_manager

(* NULL in a nullable integer foreign key column                           *)
NullId == 0

(* a pyrogram Client object built for an account                           *)
Client(n, a) == [obj |-> n, account_id |-> a]

AllClients == {Client(n, a) : n \in 1..MaxClients, a \in AcctIds}

Out(op, inst, id, value, handshake) ==
    [op |-> op, inst |-> inst, id |-> id, value |-> value,
     handshake |-> handshake]

NoOut == Out("none", 0, 0, NULL, FALSE)

(* bounds and values of the manager state                                  *)
NumCallers == 2            \* concurrent callers of one manager operation
MaxLoops == 2              \* background loops of one kind followed

Callers == 1..NumCallers

(* QueueManager.__init__: _initialized = False, no initialize call running *)
NewQueueManager == [initialized |-> FALSE, entering |-> {}]

NoLoops == [monitor |-> 0, health |-> [i \in Instances |-> 0]]

ManagerInit ==
    /\ retrying = << >>
    /\ qm = NewQueueManager
    /\ loops = NoLoops

Init ==
    /\ ledger = << >>
    /\ nextId = 1
    /\ broker = EmptyBag
    /\ backend = [j \in JobIds |-> NoResult]
    /\ running = << >>
    /\ revoked = {}
    /\ ret = NoRet
    /\ cleanCancelled = {}
    /\ enq = NoCall
    /\ cleaned = {}
    /\ accounts = << >>
    /\ nextAccountId = 1
    /\ clients = [i \in Instances |-> << >>]
    /\ conns = {}
    /\ nextObj = 1
    /\ initialized = [i \in Instances |-> FALSE]
    /\ sweep = [i \in Instances |-> << >>]
    /\ pairs = << >>
    /\ logs = {}
    /\ out = NoOut
    /\ ManagerInit

(* --------------------------- QueueManager ------------------------------ *)

(* enqueue_task without the db.add / db.commit of the row                 *)
enqueue_task_unpersisted(user_id, task_type, priority, max_retries) ==
    /\ nextId <= MaxJobs
    /\ enq = NoCall
    /\ IF get_user_plan(user_id) = NULL \/ task_type \notin task_types
       THEN /\ ret' = [op |-> "enqueue", task_id |-> 0,
                       value |-> IF get_user_plan(user_id) = NULL
                                 THEN "User not found"
                                 ELSE "Invalid task type",
                       user_id |-> user_id, priority |-> priority]
            /\ UNCHANGED <<ledger, nextId, enq>>
       ELSE LET p == effective_priority(user_id, priority)
                task_id == nextId
                row == [user_id |-> user_id, task_type |-> task_type,
                        status |-> "pending", priority |-> p,
                        created_at |-> now, started_at |-> NoTime,
                        completed_at |-> NoTime, result_data |-> NULL,
                        error_message |-> NULL, retry_count |-> 0,
                        max_retries |-> max_retries]
            IN  /\ ledger' = ledger
                /\ nextId' = nextId + 1
                /\ enq' = [task_id |-> task_id, name |-> task_type,
                           queue |-> queue_names(p), user_id |-> user_id,
                           priority |-> priority]
                /\ ret' = NoRet
    /\ UNCHANGED <<broker, backend, running, revoked, cleanCancelled,
                   cleaned>>

    /\ UNCHANGED <<platformVars, managerVars>>
(* QueueManager.enqueue_task up to the ledger commit: validation, the      *)
(* effective priority, the task id and the pending row.                    *)
enqueue_task(user_id, task_type, priority, max_retries) ==
    /\ nextId <= MaxJobs
    /\ enq = NoCall
    /\ IF get_user_plan(user_id) = NULL \/ task_type \notin task_types
       THEN /\ ret' = [op |-> "enqueue", task_id |-> 0,
                       value |-> IF get_user_plan(user_id) = NULL
                                 THEN "User not found"
                                 ELSE "Invalid task type",
                       user_id |-> user_id, priority |-> priority]
            /\ UNCHANGED <<ledger, nextId, enq>>
       ELSE LET p == effective_priority(user_id, priority)
                task_id == nextId
                row == [user_id |-> user_id, task_type |-> task_type,
                        status |-> "pending", priority |-> p,
                        created_at |-> now, started_at |-> NoTime,
                        completed_at |-> NoTime, result_data |-> NULL,
                        error_message |-> NULL, retry_count |-> 0,
                        max_retries |-> max_retries]
            IN  /\ ledger' = Put(task_id, row)
                /\ nextId' = nextId + 1
                /\ enq' = [task_id |-> task_id, name |-> task_type,
                           queue |-> queue_names(p), user_id |-> user_id,
                           priority |-> priority]
                /\ ret' = NoRet
    /\ UNCHANGED <<broker, backend, running, revoked, cleanCancelled,
                   cleaned>>

    /\ UNCHANGED <<platformVars, managerVars>>
(* QueueManager.enqueue_task from celery_app.send_task to its return.      *)
(* brokerUp = FALSE: send_task raises (broker unreachable, or celery_app   *)
(* still None) and the exception is re-raised to the caller.               *)
enqueue_send_task(brokerUp) ==
    /\ enq # NoCall
    /\ IF brokerUp
       THEN /\ broker' = broker (+) SetToBag(
                   {Msg(enq.task_id, enq.name, enq.queue, 0)})
            /\ ret' = [op |-> "enqueue", task_id |-> enq.task_id,
                       value |-> "ok", user_id |-> enq.user_id,
                       priority |-> enq.priority]
       ELSE /\ broker' = broker
            /\ ret' = [op |-> "enqueue", task_id |-> enq.task_id,
                       value |-> "broker error", user_id |-> enq.user_id,
                       priority |-> enq.priority]
    /\ enq' = NoCall
    /\ UNCHANGED <<ledger, nextId, backend, running, revoked,
                   cleanCancelled, cleaned>>

    /\ UNCHANGED <<platformVars, managerVars>>
(* The process running enqueue_task dies between the ledger commit and     *)
(* send_task: the call never returns.                                      *)
EnqueueCrash ==
    /\ enq # NoCall
    /\ enq' = NoCall
    /\ ret' = NoRet
    /\ UNCHANGED <<ledger, nextId, broker, backend, running, revoked,
                   cleanCancelled, cleaned>>

    /\ UNCHANGED <<platformVars, managerVars>>
(* QueueManager.cancel_task.  brokerUp = FALSE: control.revoke raises.      *)
cancel_task(task_id, brokerUp) ==
    /\ IF ~brokerUp
       THEN /\ ret' = Ret("cancel", task_id, "false")
            /\ UNCHANGED <<ledger, nextId, broker, backend, running, revoked,
                           cleanCancelled, enq, cleaned>>
       ELSE /\ revoked' = revoked \cup {task_id}
            /\ IF HasRow(task_id)
               THEN /\ ledger' = [ledger EXCEPT ![task_id] =
                           [@ EXCEPT !.status = "cancelled",
                                     !.error_message = "Task cancelled by user"]]
                    /\ ret' = Ret("cancel", task_id, "true")
                    /\ cleanCancelled' =
                           IF /\ ledger[task_id].status = "pending"
                              /\ \A w \in DOMAIN running :
                                     running[w].task_id # task_id
                           THEN cleanCancelled \cup {task_id}
                           ELSE cleanCancelled
               ELSE /\ ret' = Ret("cancel", task_id, "false")
                    /\ UNCHANGED <<ledger, cleanCancelled>>
            /\ UNCHANGED <<nextId, broker, backend, running, enq, cleaned>>
    /\ UNCHANGED <<platformVars, managerVars>>
(* QueueManager.retry_failed_task.  brokerUp = FALSE: send_task raises      *)
(* after the ledger commit.                                                *)
retry_failed_task(task_id, brokerUp) ==
    /\ IF ~HasRow(task_id)
       THEN /\ ret' = Ret("retry", task_id, "false")
            /\ UNCHANGED <<ledger, broker>>
       ELSE LET task == ledger[task_id] IN
            IF task.status # "failed" \/ task.retry_count >= task.max_retries
            THEN /\ ret' = Ret("retry", task_id, "false")
                 /\ UNCHANGED <<ledger, broker>>
            ELSE /\ ledger' = [ledger EXCEPT ![task_id] =
                        [@ EXCEPT !.status = "pending",
                                  !.retry_count = @ + 1,
                                  !.error_message = NULL]]
                 /\ IF brokerUp
                    THEN /\ broker' = broker (+) SetToBag(
                                {Msg(task_id, task.task_type,
                                     queue_names(task.priority), 0)})
                         /\ ret' = Ret("retry", task_id, "true")
                    ELSE /\ broker' = broker
                         /\ ret' = Ret("retry", task_id, "false")
    /\ UNCHANGED <<nextId, backend, running, revoked,
                   cleanCancelled, enq, cleaned>>

    /\ UNCHANGED <<platformVars, managerVars>>
(* QueueManager.get_task_status: the fields of the reply that come from   *)
(* the ledger row and the AsyncResult status.                              *)
get_task_status(task_id) ==
    IF ~HasRow(task_id)
    THEN [error |-> "Task not found"]
    ELSE [status |-> ledger[task_id].status,
          retry_count |-> ledger[task_id].retry_count,
          max_retries |-> ledger[task_id].max_retries,
          celery_status |-> backend[task_id].status,
          result |-> ledger[task_id].result_data,
          error |-> ledger[task_id].error_message]

(* ------------------------------ workers -------------------------------- *)

Store(id, status, result) ==
    [backend EXCEPT ![id] =
        [status |-> status, result |-> result, at |-> now]]

(* celery_config.task_prerun signal handler *)
task_prerun(id) ==
    IF HasRow(id)
    THEN [ledger EXCEPT ![id] =
             [@ EXCEPT !.status = "processing", !.started_at = now]]
    ELSE ledger

(* A worker takes message m from the broker.  A task id it holds as        *)
(* revoked is discarded; otherwise task_prerun fires and the handler       *)
(* starts (task_track_started stores STARTED).                             *)
Claim(w, m) ==
    /\ w \notin DOMAIN running
    /\ BagIn(m, broker)
    /\ broker' = broker (-) SetToBag({m})
    /\ IF m.task_id \in revoked
       THEN /\ backend' = Store(m.task_id, "REVOKED", NULL)
            /\ UNCHANGED <<ledger, running>>
       ELSE /\ ledger' = task_prerun(m.task_id)
            /\ backend' = Store(m.task_id, "STARTED", NULL)
            /\ running' = [x \in (DOMAIN running) \cup {w} |->
                               IF x = w THEN m ELSE running[x]]
    /\ ret' = NoRet
    /\ UNCHANGED <<nextId, revoked,
                   cleanCancelled, enq, cleaned>>

    /\ UNCHANGED <<platformVars, managerVars>>
Idle(w) == [x \in (DOMAIN running) \ {w} |-> running[x]]

RetryingTasks == {"forward_message", "send_message"}

(* The handler of the message worker w executes ends.                      *)
(*   "return": the executor body returns its result dict                   *)
(*   "raise" : the body raises; forward_message_task / send_message_task   *)
(*             call self.retry while request.retries < max_retries and     *)
(*             otherwise return the error dict; the other executors        *)
(*             return the error dict at once                               *)
(*   "killed": the hard time_limit of task_annotations kills the task      *)
Finish(w, outcome) ==
    /\ w \in DOMAIN running
    /\ LET m == running[w] IN
       CASE outcome = "return" ->
              /\ backend' = Store(m.task_id, "SUCCESS", "ok_result")
              /\ broker' = broker
         [] outcome = "raise" ->
              IF m.name \in RetryingTasks /\ m.retries < TaskMaxRetries
              THEN /\ backend' = Store(m.task_id, "RETRY", "boom")
                   /\ broker' = broker (+) SetToBag(
                          {[m EXCEPT !.retries = @ + 1]})
              ELSE /\ backend' = Store(m.task_id, "SUCCESS", "error_result")
                   /\ broker' = broker
         [] outcome = "killed" ->
              /\ backend' = Store(m.task_id, "FAILURE", "TimeLimitExceeded")
              /\ broker' = broker
    /\ running' = Idle(w)
    /\ ret' = NoRet
    /\ UNCHANGED <<ledger, nextId, revoked,
                   cleanCancelled, enq, cleaned>>

    /\ UNCHANGED <<platformVars, managerVars>>
(* revoke(terminate=True) reaches the worker executing the task *)
Terminate(w) ==
    /\ w \in DOMAIN running
    /\ running[w].task_id \in revoked
    /\ backend' = Store(running[w].task_id, "REVOKED", NULL)
    /\ running' = Idle(w)
    /\ ret' = NoRet
    /\ UNCHANGED <<ledger, nextId, broker, revoked,
                   cleanCancelled, enq, cleaned>>

    /\ UNCHANGED <<platformVars, managerVars>>
(* The worker processes are restarted: the in-memory revoked set is lost   *)
(* and, with task_acks_late, unacknowledged messages are redelivered.      *)
WorkerRestart ==
    /\ revoked # {} \/ DOMAIN running # {}
    /\ revoked' = {}
    /\ broker' = broker (+)
          [m \in {running[w] : w \in DOMAIN running} |->
              Cardinality({w \in DOMAIN running : running[w] = m})]
    /\ running' = << >>
    /\ ret' = NoRet
    /\ UNCHANGED <<ledger, nextId, backend, cleanCancelled, enq, cleaned>>

    /\ UNCHANGED <<platformVars, managerVars>>
(* result_expires: a stored result disappears, AsyncResult reports PENDING *)
ResultExpire(id) ==
    /\ backend[id].status # "PENDING"
    /\ now - backend[id].at >= ResultExpiresMinutes
    /\ backend' = [backend EXCEPT ![id] = NoResult]
    /\ ret' = NoRet
    /\ UNCHANGED <<ledger, nextId, broker, running, revoked,
                   cleanCancelled, enq, cleaned>>

    /\ UNCHANGED <<platformVars, managerVars>>
Shift(t, d) == IF t = NoTime THEN NoTime ELSE IF t - d < 0 THEN 0 ELSE t - d

StoredTimes ==
    UNION {{ledger[j].created_at, ledger[j].started_at,
            ledger[j].completed_at} : j \in DOMAIN ledger}
    \cup {backend[j].at : j \in JobIds}

(* d minutes pass.  Short steps are followed while no timestamp gets       *)
(* older than MaxShortSteps of them; the long step is always possible.     *)
(* A QueueManager call takes no such time: none is in progress.            *)
AdvanceClock(d) ==
    /\ d \in ClockSteps
    /\ enq = NoCall
    /\ d = TickStep =>
          \A t \in StoredTimes \ {NoTime} :
              \/ (now - t) + d <= MaxShortSteps * TickStep
              \/ now - t >= RetentionMinutes
    /\ ledger' = [j \in DOMAIN ledger |->
                     [ledger[j] EXCEPT !.created_at = Shift(@, d),
                                       !.started_at = Shift(@, d),
                                       !.completed_at = Shift(@, d)]]
    /\ backend' = [j \in JobIds |-> [backend[j] EXCEPT !.at = Shift(@, d)]]
    /\ ret' = NoRet
    /\ UNCHANGED <<nextId, broker, running, revoked,
                   cleanCancelled, enq, cleaned>>

    /\ UNCHANGED <<platformVars, managerVars>>
(* --------------------------- Queue Monitor ----------------------------- *)

IsStuck(row) ==
    /\ row.status = "processing"
    /\ row.started_at # NoTime
    /\ row.started_at < now - StuckMinutes

(* _check_stuck_tasks with the SUCCESS and REVOKED branches exchanged     *)
_check_stuck_tasks_swapped(tbl) ==
    [id \in DOMAIN tbl |->
        LET task == tbl[id]
            st == backend[id].status
        IN  IF ~IsStuck(task) THEN task
            ELSE IF st = "FAILURE"
            THEN [task EXCEPT !.status = "failed",
                              !.error_message = "Task failed (stuck detection)",
                              !.completed_at = now]
            ELSE IF st \in {"SUCCESS", "REVOKED"}
            THEN [task EXCEPT !.status = IF st = "SUCCESS" THEN "cancelled"
                                         ELSE "completed",
                              !.completed_at = now]
            ELSE task]

(* QueueManager._check_stuck_tasks: the table after the scan *)
_check_stuck_tasks(tbl) ==
    [id \in DOMAIN tbl |->
        LET task == tbl[id]
            st == backend[id].status
        IN  IF ~IsStuck(task) THEN task
            ELSE IF st = "FAILURE"
            THEN [task EXCEPT !.status = "failed",
                              !.error_message = "Task failed (stuck detection)",
                              !.completed_at = now]
            ELSE IF st \in {"SUCCESS", "REVOKED"}
            THEN [task EXCEPT !.status = IF st = "SUCCESS" THEN "completed"
                                         ELSE "cancelled",
                              !.completed_at = now]
            ELSE task]

(* QueueManager.cleanup_old_tasks(days_old): the table after the delete *)
cleanup_old_tasks(tbl, days_old) ==
    LET cutoff_date == now - days_old * 24 * 60
        keep == {id \in DOMAIN tbl :
                    ~(/\ tbl[id].status \in {"completed", "failed", "cancelled"}
                      /\ tbl[id].created_at < cutoff_date)}
    IN  [id \in keep |-> tbl[id]]

(* One iteration of QueueManager._queue_monitor; hourly = TRUE when the    *)
(* event-loop time falls in the once-per-hour window.                      *)
MonitorTick(hourly) ==
    /\ ledger' = IF hourly
                 THEN cleanup_old_tasks(_check_stuck_tasks(ledger),
                                        RetentionDays)
                 ELSE _check_stuck_tasks(ledger)
    /\ cleaned' = cleaned \cup ((DOMAIN ledger) \ (DOMAIN ledger'))
    /\ ret' = NoRet
    /\ UNCHANGED <<nextId, broker, backend, running, revoked,
                   cleanCancelled, enq>>

    /\ UNCHANGED <<platformVars, managerVars>>
(* ------------------------------ system --------------------------------- *)

AllMsgs == {Msg(id, n, q, r) : id \in JobIds, n \in task_types,
               q \in {"low_priority", "medium_priority", "high_priority"},
               r \in 0..TaskMaxRetries}

(* task ids a caller can pass: enqueue_task returns the id it generated   *)
(* only at its end, so the id of a call in progress is not yet known.      *)
KnownIds == JobIds \ {enq.task_id}

Next ==
    \/ \E u \in {0, 2},
          t \in {"forward_message", "send_message", "bulk_forward", "bogus"},
          p \in {NoPriority, 1, 4}, mr \in 0..MaxRetriesArg
          : enqueue_task(u, t, p, mr)
    \/ \E up \in BOOLEAN : enqueue_send_task(up)
    \/ EnqueueCrash
    \/ \E id \in KnownIds, up \in BOOLEAN : cancel_task(id, up)
    \/ \E id \in KnownIds, up \in BOOLEAN : retry_failed_task(id, up)
    \/ \E w \in Workers, m \in AllMsgs : Claim(w, m)
    \/ \E w \in Workers, o \in {"return", "raise", "killed"} : Finish(w, o)
    \/ \E w \in Workers : Terminate(w)
    \/ WorkerRestart
    \/ \E id \in JobIds : ResultExpire(id)
    \/ \E d \in ClockSteps : AdvanceClock(d)
    \/ \E hourly \in BOOLEAN : MonitorTick(hourly)

Spec == Init /\ [][Next]_vars

(* Enqueueing for every user and every requested priority, with the       *)
(* workers that consume the jobs.                                          *)
PrioNext ==
    \/ \E u \in Users \cup {0}, t \in {"send_message", "bogus"},
          p \in {NoPriority} \cup ((0 - 1)..4)
          : enqueue_task(u, t, p, MaxRetriesArg)
    \/ \E up \in BOOLEAN : enqueue_send_task(up)
    \/ \E w \in Workers, m \in AllMsgs : Claim(w, m)
    \/ \E w \in Workers : Finish(w, "return")

PrioSpec == Init /\ [][PrioNext]_vars

(* The same system with one kind of request and a reachable broker, under  *)
(* the scheduling the deployment provides: an enqueue call runs to its     *)
(* end, a worker is available and its handlers end, time passes and the    *)
(* Queue Monitor loop keeps ticking.                                       *)
FairNext ==
    \/ \E mr \in 0..MaxRetriesArg :
          enqueue_task(3, "forward_message", NoPriority, mr)
    \/ enqueue_send_task(TRUE)
    \/ \E w \in Workers, m \in AllMsgs : Claim(w, m)
    \/ \E w \in Workers, o \in {"return", "raise", "killed"} : Finish(w, o)
    \/ \E id \in JobIds : ResultExpire(id)
    \/ \E d \in ClockSteps : AdvanceClock(d)
    \/ \E hourly \in BOOLEAN : MonitorTick(hourly)

FairSpec ==
    /\ Init
    /\ [][FairNext]_vars
    /\ WF_vars(enqueue_send_task(TRUE))
    /\ WF_vars(\E w \in Workers, m \in AllMsgs : Claim(w, m))
    /\ WF_vars(\E w \in Workers, o \in {"return", "raise", "killed"} :
                  Finish(w, o))
    /\ WF_vars(\E d \in ClockSteps : AdvanceClock(d))
    /\ WF_vars(\E hourly \in BOOLEAN : MonitorTick(hourly))

(* ------------------- accounts and protocol sessions -------------------- *)

TelegramAccount(user_id, status) == [user_id |-> user_id, status |-> status]

(* ForwardingPair row; keywords are the JSON keyword lists                 *)
ForwardingPair(user_id, telegram_account_id, filter_kw, exclude_kw) ==
    [user_id |-> user_id, telegram_account_id |-> telegram_account_id,
     status |-> "active", platform_type |-> "telegram_to_telegram",
     filter_keywords |-> filter_kw, exclude_keywords |-> exclude_kw]

HasAccount(a) == a \in DOMAIN accounts

ActiveAccounts == {a \in DOMAIN accounts : accounts[a].status = "active"}

Register(reg, a, c) ==
    [x \in (DOMAIN reg) \cup {a} |-> IF x = a THEN c ELSE reg[x]]

Unregister(reg, a) == [x \in (DOMAIN reg) \ {a} |-> reg[x]]

SetStatus(tbl, a, st) ==
    IF a \in DOMAIN tbl THEN [tbl EXCEPT ![a].status = st] ELSE tbl

(* users table column max_telegram_accounts                                *)
max_telegram_accounts(u) == MaxTelegramAccounts

(* TelegramClient._create_client on instance i for account a: a new Client *)
(* object is built and started; on success it is stored under the account  *)
(* id, whatever the dict held there, and the row is marked active.         *)
(* tbl, reg, cn = the table, the dict and the connections as the caller   *)
(* left them; started = client.start() succeeds.                           *)
_create_client(i, a, started, tbl, reg, cn) ==
    /\ nextObj <= MaxClients
    /\ nextObj' = nextObj + 1
    /\ IF started
       THEN /\ conns' = cn \cup {Client(nextObj, a)}
            /\ clients' = [clients EXCEPT ![i] =
                              Register(reg, a, Client(nextObj, a))]
            /\ accounts' = SetStatus(tbl, a, "active")
       ELSE /\ conns' = cn
            /\ clients' = [clients EXCEPT ![i] = reg]
            /\ accounts' = tbl

(* SessionManager.initialize -> TelegramClient.initialize ->               *)
(* _load_existing_sessions: nothing when _initialized is set; otherwise    *)
(* one _create_client per active row, a start failure being logged and the *)
(* load going on.  startable = accounts whose client.start() succeeds.     *)
LoadSessions(i, startable) ==
    IF initialized[i]
    THEN UNCHANGED <<clients, conns, nextObj, initialized>>
    ELSE LET active == ActiveAccounts
             num(a) == nextObj + Cardinality({b \in active : b < a})
             ok == active \cap startable
         IN  /\ nextObj + Cardinality(active) - 1 <= MaxClients
             /\ nextObj' = nextObj + Cardinality(active)
             /\ conns' = conns \cup {Client(num(a), a) : a \in ok}
             /\ clients' = [clients EXCEPT ![i] =
                    [a \in (DOMAIN @) \cup ok |->
                        IF a \in ok THEN Client(num(a), a) ELSE @[a]]]
             /\ initialized' = [initialized EXCEPT ![i] = TRUE]

(* SessionManager.initialize, at process start or before the first        *)
(* forward; TelegramClient.initialize creates the health checker task.     *)
initialize(i, startable) ==
    /\ LoadSessions(i, startable)
    /\ IF initialized[i]
       THEN loops' = loops
       ELSE /\ loops.health[i] < MaxLoops
            /\ loops' = [loops EXCEPT !.health[i] = @ + 1]
    /\ out' = Out("initialize", i, 0,
                  IF initialized[i] THEN "noop" ELSE "loaded",
                  ~initialized[i] /\ ActiveAccounts # {})
    /\ UNCHANGED <<accounts, nextAccountId, sweep, pairs, logs>>
    /\ UNCHANGED <<queueVars, retrying, qm>>

(* TelegramClient.add_account.  sent = connect / send_code succeed.        *)
add_account(i, user_id, sent) ==
    /\ IF user_id \notin Users
       THEN /\ out' = Out("add_account", i, 0, "User not found", FALSE)
            /\ UNCHANGED <<accounts, nextAccountId>>
       ELSE LET existing_accounts == Cardinality(
                    {a \in ActiveAccounts : accounts[a].user_id = user_id})
            IN  IF existing_accounts >= max_telegram_accounts(user_id)
                THEN /\ out' = Out("add_account", i, 0, "limit reached", FALSE)
                     /\ UNCHANGED <<accounts, nextAccountId>>
                ELSE IF ~sent
                THEN /\ out' = Out("add_account", i, 0, "raise", TRUE)
                     /\ UNCHANGED <<accounts, nextAccountId>>
                ELSE /\ nextAccountId <= MaxAccounts
                     /\ accounts' = Register(accounts, nextAccountId,
                            TelegramAccount(user_id, "pending_verification"))
                     /\ nextAccountId' = nextAccountId + 1
                     /\ out' = Out("add_account", i, nextAccountId,
                                   "OTP sent", TRUE)
    /\ UNCHANGED <<clients, conns, nextObj, initialized, sweep, pairs, logs>>
    /\ UNCHANGED <<queueVars, managerVars>>

(* TelegramClient.verify_account.  signed_in = connect / sign_in succeed,  *)
(* started = the start of the account's client succeeds.                   *)
verify_account(i, a, signed_in, started) ==
    /\ IF ~HasAccount(a) \/ accounts[a].status # "pending_verification"
       THEN /\ out' = Out("verify_account", i, a, "raise", FALSE)
            /\ UNCHANGED <<accounts, clients, conns, nextObj>>
       ELSE IF ~signed_in
       THEN /\ out' = Out("verify_account", i, a, "raise", TRUE)
            /\ UNCHANGED <<accounts, clients, conns, nextObj>>
       ELSE /\ _create_client(i, a, started,
                              SetStatus(accounts, a, "active"),
                              clients[i], conns)
            /\ out' = Out("verify_account", i, a,
                          IF started THEN "true" ELSE "raise", TRUE)
    /\ UNCHANGED <<nextAccountId, initialized, sweep, pairs, logs>>
    /\ UNCHANGED <<queueVars, managerVars>>

(* TelegramClient.remove_account.  stopped = client.stop() succeeds; an    *)
(* error of stop() leaves the dict and the row as they were and is raised  *)
(* again.                                                                  *)
remove_account(i, a, stopped) ==
    /\ IF ~HasAccount(a)
       THEN /\ out' = Out("remove_account", i, a, "Account not found", FALSE)
            /\ UNCHANGED <<accounts, clients, conns>>
       ELSE IF a \in DOMAIN clients[i] /\ ~stopped
       THEN /\ out' = Out("remove_account", i, a, "raise", FALSE)
            /\ UNCHANGED <<accounts, clients, conns>>
       ELSE /\ conns' = IF a \in DOMAIN clients[i]
                        THEN conns \ {clients[i][a]} ELSE conns
            /\ clients' = [clients EXCEPT ![i] = Unregister(@, a)]
            /\ accounts' = SetStatus(accounts, a, "inactive")
            /\ out' = Out("remove_account", i, a, "true", FALSE)
    /\ UNCHANGED <<nextAccountId, nextObj, initialized, sweep, pairs, logs>>
    /\ UNCHANGED <<queueVars, managerVars>>

(* api/accounts.py delete_telegram_session: db.delete(account); the        *)
(* relationship to forwarding_pairs has no cascade, so the ORM sets the    *)
(* telegram_account_id of the referencing pairs to NULL.                   *)
delete_telegram_session(session_id, user_id) ==
    /\ IF ~HasAccount(session_id) \/ accounts[session_id].user_id # user_id
       THEN /\ out' = Out("delete_session", 0, session_id, "404", FALSE)
            /\ UNCHANGED <<accounts, pairs>>
       ELSE /\ accounts' = Unregister(accounts, session_id)
            /\ pairs' = [p \in DOMAIN pairs |->
                   IF pairs[p].telegram_account_id = session_id
                   THEN [pairs[p] EXCEPT !.telegram_account_id = NullId]
                   ELSE pairs[p]]
            /\ out' = Out("delete_session", 0, session_id, "success", FALSE)
    /\ UNCHANGED <<nextAccountId, clients, conns, nextObj, initialized,
                   sweep, logs>>
    /\ UNCHANGED <<queueVars, managerVars>>

(* SessionManager.restart_session("telegram", a)                           *)
restart_session(i, a, stopped, started) ==
    /\ IF ~HasAccount(a) \/ accounts[a].status # "active"
       THEN /\ out' = Out("restart_session", i, a, "false", FALSE)
            /\ UNCHANGED <<accounts, clients, conns, nextObj>>
       ELSE IF a \in DOMAIN clients[i] /\ ~stopped
       THEN /\ out' = Out("restart_session", i, a, "false", FALSE)
            /\ UNCHANGED <<accounts, clients, conns, nextObj>>
       ELSE /\ LET old == IF a \in DOMAIN clients[i]
                          THEN {clients[i][a]} ELSE {}
               IN  _create_client(i, a, started, accounts,
                                  Unregister(clients[i], a), conns \ old)
            /\ out' = Out("restart_session", i, a,
                          IF started THEN "true" ELSE "false", TRUE)
    /\ UNCHANGED <<nextAccountId, initialized, sweep, pairs, logs>>
    /\ UNCHANGED <<queueVars, managerVars>>

(* TelegramClient.send_message / forward_message.  sent = the protocol     *)
(* call succeeds.                                                          *)
send_message(i, a, sent) ==
    /\ out' = IF a \notin DOMAIN clients[i]
              THEN Out("send_message", i, a, "false", FALSE)
              ELSE Out("send_message", i, a,
                       IF sent THEN "true" ELSE "false", FALSE)
    /\ UNCHANGED <<accounts, nextAccountId, clients, conns, nextObj,
                   initialized, sweep, pairs, logs>>
    /\ UNCHANGED <<queueVars, managerVars>>

(* the connection of a started client is lost                              *)
ConnectionLost(c) ==
    /\ c \in conns
    /\ conns' = conns \ {c}
    /\ out' = NoOut
    /\ UNCHANGED <<accounts, nextAccountId, clients, nextObj, initialized,
                   sweep, pairs, logs>>
    /\ UNCHANGED <<queueVars, managerVars>>

(* the orders in which list(self.clients.items()) can list a dict: its     *)
(* insertion order, which depends on the calls made so far                 *)
Snapshots(reg) ==
    {s \in [1..Cardinality(DOMAIN reg) -> {reg[a] : a \in DOMAIN reg}] :
        \A x, y \in DOMAIN s : x # y => s[x] # s[y]}

(* one iteration of the for loop of _session_health_checker on snapshot    *)
(* entry c.  alive = start() (when disconnected) and get_me() succeed;     *)
(* reconnected = stop() and start() succeed.                               *)
HealthCheck(i, c, rest, alive, reconnected) ==
    LET a == c.account_id
        shake == c \notin conns \/ ~alive
    IN  IF alive
        THEN /\ conns' = conns \cup {c}
             /\ sweep' = [sweep EXCEPT ![i] = rest]
             /\ out' = Out("health_check", i, a, "alive", shake)
             /\ UNCHANGED <<clients, accounts>>
        ELSE IF reconnected
        THEN /\ conns' = conns \cup {c}
             /\ sweep' = [sweep EXCEPT ![i] = rest]
             /\ out' = Out("health_check", i, a, "reconnected", shake)
             /\ UNCHANGED <<clients, accounts>>
        ELSE IF a \notin DOMAIN clients[i]
        THEN /\ conns' = conns \ {c}
             /\ sweep' = [sweep EXCEPT ![i] = << >>]
             /\ out' = Out("health_check", i, a, "KeyError", shake)
             /\ UNCHANGED <<clients, accounts>>
        ELSE /\ conns' = conns \ {c}
             /\ clients' = [clients EXCEPT ![i] = Unregister(@, a)]
             /\ accounts' = SetStatus(accounts, a, "disconnected")
             /\ sweep' = [sweep EXCEPT ![i] = rest]
             /\ out' = Out("health_check", i, a, "removed", shake)

(* _session_health_checker wakes up, snapshots the dict and checks the     *)
(* first entry                                                             *)
SweepStart(i, alive, reconnected) ==
    /\ initialized[i]
    /\ sweep[i] = << >>
    /\ \E snap \in Snapshots(clients[i]) :
           /\ snap # << >>
           /\ HealthCheck(i, Head(snap), Tail(snap), alive, reconnected)
    /\ UNCHANGED <<nextAccountId, nextObj, initialized, pairs, logs>>
    /\ UNCHANGED <<queueVars, managerVars>>

(* the loop resumes after the awaits of the previous entry                 *)
SweepStep(i, alive, reconnected) ==
    /\ sweep[i] # << >>
    /\ HealthCheck(i, Head(sweep[i]), Tail(sweep[i]), alive, reconnected)
    /\ UNCHANGED <<nextAccountId, nextObj, initialized, pairs, logs>>
    /\ UNCHANGED <<queueVars, managerVars>>

SeedPairs ==
    {ForwardingPair(1, 1, f, e) : f \in {{}, {"buy"}}, e \in {{}, {"spam"}}}

SessionSeedPairs == {<< >>, (1 :> ForwardingPair(1, 1, {}, {}))}

(* the database at start-up: empty, or user 1 with a verified account and  *)
(* possibly a pair that forwards from it                                   *)
SessionInit ==
    /\ ledger = << >>
    /\ nextId = 1
    /\ broker = EmptyBag
    /\ backend = [j \in JobIds |-> NoResult]
    /\ running = << >>
    /\ revoked = {}
    /\ ret = NoRet
    /\ cleanCancelled = {}
    /\ enq = NoCall
    /\ cleaned = {}
    /\ \/ /\ accounts = << >>
          /\ nextAccountId = 1
          /\ pairs = << >>
       \/ /\ accounts = (1 :> TelegramAccount(1, "active"))
          /\ nextAccountId = 2
          /\ pairs \in SessionSeedPairs
    /\ clients = [i \in Instances |-> << >>]
    /\ conns = {}
    /\ nextObj = 1
    /\ initialized = [i \in Instances |-> FALSE]
    /\ sweep = [i \in Instances |-> << >>]
    /\ logs = {}
    /\ out = NoOut
    /\ ManagerInit

SessionNext ==
    \/ \E i \in Instances, startable \in SUBSET AcctIds :
           initialize(i, startable)
    \/ \E u \in {0, 1}, sent \in BOOLEAN :
           add_account(WorkerInstance, u, sent)
    \/ \E a \in AcctIds, signed_in, started \in BOOLEAN :
           verify_account(WorkerInstance, a, signed_in, started)
    \/ \E a \in AcctIds, stopped \in BOOLEAN :
           remove_account(WorkerInstance, a, stopped)
    \/ \E a \in AcctIds, u \in {1, 2} : delete_telegram_session(a, u)
    \/ \E a \in AcctIds, stopped, started \in BOOLEAN :
           restart_session(TaskInstance, a, stopped, started)
    \/ \E a \in AcctIds, sent \in BOOLEAN :
           send_message(TaskInstance, a, sent)
    \/ \E c \in AllClients : ConnectionLost(c)
    \/ \E alive, reconnected \in BOOLEAN :
           SweepStart(WorkerInstance, alive, reconnected)
    \/ \E alive, reconnected \in BOOLEAN :
           SweepStep(WorkerInstance, alive, reconnected)

SessionSpec == SessionInit /\ [][SessionNext]_vars

(* ------------------------------ claims --------------------------------- *)

Row(j) == ledger[j]

RetryCountBounded ==
    \A j \in DOMAIN ledger : Row(j).retry_count <= Row(j).max_retries

Exhausted(j) ==
    /\ HasRow(j)
    /\ Row(j).status = "failed"
    /\ Row(j).retry_count = Row(j).max_retries

ExhaustedStaysFailed ==
    \A j \in JobIds :
        Exhausted(j) =>
            /\ j \in DOMAIN ledger' => ledger'[j].status = "failed"
            /\ (ret'.op = "retry" /\ ret'.task_id = j) => ret'.value = "false"

(* C1: retry_count never exceeds max_retries, and a job that is failed     *)
(* with retry_count = max_retries is refused by retry(job_id) and has its  *)
(* status changed by no operation afterwards.                              *)
C1_Claim == [](RetryCountBounded) /\ [][ExhaustedStaysFailed]_vars

StatusSteps ==
    {<<"pending", "processing">>, <<"processing", "completed">>,
     <<"processing", "failed">>, <<"processing", "cancelled">>,
     <<"pending", "cancelled">>, <<"failed", "pending">>}

MonotonicStep ==
    \A j \in (DOMAIN ledger) \cap (DOMAIN ledger') :
        ledger[j].status # ledger'[j].status =>
            <<ledger[j].status, ledger'[j].status>> \in StatusSteps

(* C2: every change of a ledger row's status is pending->processing,       *)
(* processing->completed|failed|cancelled, pending->cancelled or the       *)
(* retry policy's failed->pending.                                         *)
C2_Claim == [][MonotonicStep]_vars

ReturnedNormally(j) ==
    /\ HasRow(j)
    /\ backend[j].status = "SUCCESS"
    /\ backend[j].result = "ok_result"

CompletedWithResult(j) ==
    /\ HasRow(j)
    /\ get_task_status(j).status = "completed"
    /\ get_task_status(j).result = "ok_result"

(* C3: a job whose handler returned a value normally eventually has a      *)
(* ledger row in status completed and a job status reply whose result is   *)
(* the returned value.                                                     *)
C3_Claim == \A j \in JobIds : ReturnedNormally(j) ~> CompletedWithResult(j)

(* C4: once an executor's exception has exhausted its retries the job's    *)
(* row is never completed, and when it is failed the error text of its     *)
(* job status reply is the exception message.                              *)
C4_Claim ==
    \A j \in DOMAIN ledger :
        backend[j].result = "error_result" =>
            /\ get_task_status(j).status # "completed"
            /\ get_task_status(j).status = "failed" =>
                   get_task_status(j).error = "boom"

(* C5: a job that is processing with a start timestamp older than the      *)
(* stuck threshold eventually leaves processing.                           *)
C5_Claim ==
    \A j \in JobIds :
        (HasRow(j) /\ IsStuck(Row(j))) ~>
            (~HasRow(j) \/ Row(j).status # "processing")

Terminal == {"completed", "failed", "cancelled"}

StuckJob(j) ==
    /\ Row(j).status = "processing"
    /\ Row(j).started_at # NoTime
    /\ now - Row(j).started_at > StuckMinutes

TickMapping(st) ==
    CASE st = "SUCCESS" -> "completed"
      [] st = "REVOKED" -> "cancelled"
      [] st = "FAILURE" -> "failed"

TickResolves(j) ==
    /\ j \in DOMAIN ledger'
    /\ ledger'[j].status = TickMapping(backend[j].status)
    /\ ledger'[j].completed_at = now
    /\ ledger'[j] = [Row(j) EXCEPT !.status = ledger'[j].status,
                                   !.completed_at = now,
                                   !.error_message = ledger'[j].error_message]

TickLeaves(j) == j \in DOMAIN ledger' /\ ledger'[j] = Row(j)

TickMapsAll ==
    \A j \in DOMAIN ledger :
        IF StuckJob(j)
        THEN backend[j].status \in {"SUCCESS", "REVOKED", "FAILURE"} =>
                 TickResolves(j)
        ELSE TickLeaves(j)

Swept(j, hourly) ==
    hourly /\ now - Row(j).created_at > RetentionMinutes

TickMapsOrSweeps(hourly) ==
    \A j \in DOMAIN ledger :
        IF StuckJob(j)
        THEN backend[j].status \in {"SUCCESS", "REVOKED", "FAILURE"} =>
                 IF Swept(j, hourly) THEN j \notin DOMAIN ledger'
                 ELSE TickResolves(j)
        ELSE IF Swept(j, hourly) /\ Row(j).status \in Terminal
             THEN j \notin DOMAIN ledger'
             ELSE TickLeaves(j)

TierCeiling(tier) ==
    CASE tier = "free" -> 1
      [] tier = "pro" -> 2
      [] tier = "elite" -> 3

Min(a, b) == IF a < b THEN a ELSE b

(* C7: an enqueue for an existing user is never rejected because of its    *)
(* priority; the row's priority is min(requested, tier ceiling) with       *)
(* ceilings free=1, pro=2, elite=3, and the tier default, which lies       *)
(* within the ceiling, when no priority was supplied.                      *)
C7_Claim ==
    (ret.op = "enqueue" /\ ret.user_id \in Users) =>
        /\ ret.value \in {"ok", "broker error", "Invalid task type"}
        /\ ret.value \in {"ok", "broker error"} =>
             /\ HasRow(ret.task_id)
             /\ LET ceiling == TierCeiling(get_user_plan(ret.user_id))
                    effective == Row(ret.task_id).priority
                IN  IF ret.priority = NoPriority
                    THEN /\ effective =
                              _get_plan_priority(get_user_plan(ret.user_id))
                         /\ effective \in 1..ceiling
                    ELSE effective = Min(ret.priority, ceiling)

C7_Witness ==
    /\ ret.op = "enqueue"
    /\ ret.value = "ok"
    /\ ret.user_id = 1
    /\ ret.priority = 4
    /\ HasRow(ret.task_id)
    /\ Row(ret.task_id).priority = 1

MsgIds == {m.task_id : m \in BagToSet(broker)}

HandsOver == enq # NoCall /\ enq' = NoCall /\ broker' # broker

SubmissionFailed == ret.op = "enqueue" /\ ret.value = "broker error"

RowIn(j, statuses) == HasRow(j) /\ Row(j).status \in statuses

BandOf(priority) ==
    CASE priority = 1 -> "low_priority"
      [] priority = 2 -> "medium_priority"
      [] priority = 3 -> "high_priority"

Retryable(j) ==
    /\ HasRow(j)
    /\ Row(j).status = "failed"
    /\ Row(j).retry_count < Row(j).max_retries

RetryContract(j) ==
    IF Retryable(j)
    THEN /\ ret'.value = "true"
         /\ ledger' = [ledger EXCEPT ![j] =
                [@ EXCEPT !.status = "pending",
                          !.retry_count = Row(j).retry_count + 1,
                          !.error_message = ledger'[j].error_message]]
         /\ broker' = broker (+) SetToBag(
                {Msg(j, Row(j).task_type, BandOf(Row(j).priority), 0)})
    ELSE /\ ret'.value = "false"
         /\ ledger' = ledger
         /\ broker' = broker

(* C9: retry(job_id) on a failed job with retry_count < max_retries adds 1 *)
(* to retry_count, sets status pending, submits the job once to the band   *)
(* of its stored priority and returns true; otherwise it returns false,    *)
(* submits nothing and leaves the ledger unchanged.                        *)
C9_Claim ==
    [][\A j \in JobIds :
          (ret'.op = "retry" /\ ret'.task_id = j) => RetryContract(j)]_vars

(* C10: a job cancelled while pending and unclaimed keeps a cancelled row  *)
(* and no worker ever executes its handler.                                *)
C10_Claim ==
    \A j \in cleanCancelled :
        /\ HasRow(j) => Row(j).status = "cancelled"
        /\ \A w \in DOMAIN running : running[w].task_id # j

(* ------------------------- plan policy functions ----------------------- *)

(* the result of a call: the exception it raised, or the value it returned *)
Raised(exc) == [raised |-> exc, value |-> NULL]
Returned(v) == [raised |-> "none", value |-> v]

TierStrings == {"free", "pro", "elite", "FREE", "Pro", "gold", "premium", ""}

(* str.lower() on the tier strings                                         *)
lower(s) ==
    CASE s = "FREE" -> "free"
      [] s = "Pro" -> "pro"
      [] OTHER -> s

Platforms == {"telegram_to_telegram", "telegram_to_discord",
              "discord_to_telegram", "discord_to_discord"}

(* utils/plan_rules.py PLAN_LIMITS; features = the keys set to True        *)
PLAN_LIMITS(plan_type) ==
    CASE plan_type = "free" ->
           [max_forwarding_pairs |-> 1, max_telegram_accounts |-> 1,
            max_discord_accounts |-> 0,
            allowed_platforms |-> {"telegram_to_telegram"},
            features |-> {}]
      [] plan_type = "pro" ->
           [max_forwarding_pairs |-> 15, max_telegram_accounts |-> 2,
            max_discord_accounts |-> 1,
            allowed_platforms |-> Platforms \ {"discord_to_discord"},
            features |-> {"text_filtering", "image_blocking",
                          "text_replacement", "export_csv",
                          "priority_support"}]
      [] plan_type = "elite" ->
           [max_forwarding_pairs |-> 999, max_telegram_accounts |-> 3,
            max_discord_accounts |-> 3,
            allowed_platforms |-> Platforms,
            features |-> {"copy_mode", "scheduled_forwarding",
                          "text_filtering", "image_blocking",
                          "text_replacement", "export_csv", "export_pdf",
                          "api_access", "priority_support", "webhooks"}]

PlanFeatureKeys == PLAN_LIMITS("elite").features

(* PlanValidator.get_plan_limits: PlanType(plan.lower()) raises ValueError *)
(* for a string that is no member of the enum, before the .get default.    *)
get_plan_limits(plan) ==
    IF lower(plan) \in PlanType
    THEN Returned(PLAN_LIMITS(lower(plan)))
    ELSE Raised("ValueError")

(* PlanValidator.can_add_forwarding_pair                                   *)
can_add_forwarding_pair(plan, current_pairs, platform_type) ==
    LET limits == get_plan_limits(plan) IN
    IF limits.raised # "none" THEN limits
    ELSE IF current_pairs >= limits.value.max_forwarding_pairs
    THEN Returned([ok |-> FALSE, message |-> "pair limit"])
    ELSE IF platform_type \notin limits.value.allowed_platforms
    THEN Returned([ok |-> FALSE, message |-> "platform"])
    ELSE Returned([ok |-> TRUE, message |-> "Can add forwarding pair"])

(* PlanValidator.can_use_feature                                           *)
can_use_feature(plan, feature) ==
    LET limits == get_plan_limits(plan) IN
    IF limits.raised # "none" THEN limits
    ELSE IF feature \notin PlanFeatureKeys
    THEN Returned([ok |-> FALSE, message |-> "Unknown feature"])
    ELSE IF feature \notin limits.value.features
    THEN Returned([ok |-> FALSE, message |-> "requires plan"])
    ELSE Returned([ok |-> TRUE, message |-> "Feature available"])

(* FeatureGating._load_plan_limits: max_forwarding_pairs (-1 = unlimited)  *)
max_forwarding_pairs(plan) ==
    CASE plan = "free" -> 2
      [] plan = "pro" -> 10
      [] plan = "elite" -> 0 - 1

(* FeatureGating._load_plan_features                                       *)
plan_features(plan) ==
    CASE plan = "free" -> {"basic_forwarding"}
      [] plan = "pro" -> {"basic_forwarding", "copy_mode",
                          "discord_forwarding", "custom_delays",
                          "api_access"}
      [] plan = "elite" -> {"basic_forwarding", "copy_mode",
                            "chain_forwarding", "discord_forwarding",
                            "priority_queue", "advanced_scheduling",
                            "bulk_operations", "api_access",
                            "custom_delays", "webhook_support"}

FeatureType == plan_features("elite")

(* FeatureGating.validate_plan_active: reads user.plan_expiry, an          *)
(* attribute the User model does not define (its column is                 *)
(* plan_expires_at), so the read raises for every user row.                *)
validate_plan_active(user_id) ==
    IF user_id \notin Users THEN Returned(FALSE)
    ELSE Raised("AttributeError")

(* FeatureGating.check_feature_access                                      *)
check_feature_access(user_id, feature) ==
    LET plan == get_user_plan(user_id)
        active == validate_plan_active(user_id)
    IN  IF plan = NULL THEN Returned(FALSE)
        ELSE IF active.raised # "none" THEN active
        ELSE IF ~active.value THEN Returned(FALSE)
        ELSE Returned(feature \in plan_features(plan))

(* FeatureGating._get_current_usage("max_forwarding_pairs")                *)
_get_current_usage(user_id) ==
    Cardinality({p \in DOMAIN pairs : /\ pairs[p].user_id = user_id
                                      /\ pairs[p].status = "active"})

(* FeatureGating.check_limit(user_id, "max_forwarding_pairs")              *)
check_limit(user_id) ==
    LET plan == get_user_plan(user_id)
        active == validate_plan_active(user_id)
    IN  IF plan = NULL THEN Returned(FALSE)
        ELSE IF active.raised # "none" THEN active
        ELSE IF ~active.value THEN Returned(FALSE)
        ELSE IF max_forwarding_pairs(plan) = 0 - 1 THEN Returned(TRUE)
        ELSE Returned(_get_current_usage(user_id) < max_forwarding_pairs(plan))

(* FeatureGating.validate_forwarding_pair_creation                         *)
validate_forwarding_pair_creation(user_id) ==
    LET feature == check_feature_access(user_id, "basic_forwarding")
        limit_check == check_limit(user_id)
    IN  IF feature.raised # "none" THEN feature
        ELSE IF ~feature.value THEN Returned(FALSE)
        ELSE IF limit_check.raised # "none" THEN limit_check
        ELSE Returned(limit_check.value)

(* FeatureGating.validate_bulk_operations                                  *)
validate_bulk_operations(user_id) ==
    check_feature_access(user_id, "bulk_operations")

(* a policy result as it is recorded: the exception raised, the boolean    *)
(* verdict, the number and the text of the returned value                  *)
Flat(raised, ok, limit, detail) ==
    [raised |-> raised, ok |-> ok, limit |-> limit, detail |-> detail]

Flatten(r, kind) ==
    IF r.raised # "none" THEN Flat(r.raised, FALSE, 0, NULL)
    ELSE CASE kind = "bool" -> Flat("none", r.value, 0, NULL)
           [] kind = "check" -> Flat("none", r.value.ok, 0, r.value.message)
           [] kind = "number" -> Flat("none", TRUE, r.value, NULL)
           [] kind = "text" -> Flat("none", TRUE, 0, r.value)
           [] kind = "priority" ->
                  Flat("none", r.value.allowed, r.value.max_priority, NULL)

LimitKeys == {"max_forwarding_pairs", "max_telegram_accounts",
              "max_discord_accounts"}

(* PlanValidator called with a tier string                                 *)
plan_validator_result(fn, plan, num, key) ==
    CASE fn = "get_plan_limits" ->
             LET limits == get_plan_limits(plan) IN
             IF limits.raised # "none" THEN Flatten(limits, "number")
             ELSE Flatten(Returned(limits.value[key]), "number")
      [] fn = "can_add_forwarding_pair" ->
             Flatten(can_add_forwarding_pair(plan, num,
                                             "telegram_to_telegram"), "check")
      [] fn = "can_use_feature" -> Flatten(can_use_feature(plan, key), "check")

(* FeatureGating and QueueManager policy functions called for a user       *)
feature_gating_result(fn, user_id, num, key) ==
    CASE fn = "get_user_plan" ->
             Flatten(Returned(get_user_plan(user_id)), "text")
      [] fn = "check_feature_access" ->
             Flatten(check_feature_access(user_id, key), "bool")
      [] fn = "validate_forwarding_pair_creation" ->
             Flatten(validate_forwarding_pair_creation(user_id), "bool")
      [] fn = "_get_plan_priority" ->
             Flatten(Returned(_get_plan_priority(get_user_plan(user_id))),
                     "number")
      [] fn = "validate_queue_priority" ->
             Flatten(Returned(validate_queue_priority(user_id, num)),
                     "priority")

PolicyOut(fn, plan, user_id, num, key, r) ==
    [op |-> "policy", fn |-> fn, plan |-> plan, user_id |-> user_id,
     num |-> num, key |-> key, raised |-> r.raised, ok |-> r.ok,
     limit |-> r.limit, detail |-> r.detail]

(* a call of a PlanValidator function with a tier string                   *)
plan_validator_call(fn, plan, num, key) ==
    /\ out' = PolicyOut(fn, plan, 0, num, key,
                        plan_validator_result(fn, plan, num, key))
    /\ UNCHANGED <<accounts, nextAccountId, clients, conns, nextObj,
                   initialized, sweep, pairs, logs>>
    /\ UNCHANGED <<queueVars, managerVars>>

(* a call of a FeatureGating or QueueManager policy function for a user    *)
feature_gating_call(fn, user_id, num, key) ==
    /\ fn = "_get_plan_priority" => user_id \in Users
    /\ out' = PolicyOut(fn, IF user_id \in Users THEN user_plan(user_id)
                            ELSE NULL,
                        user_id, num, key,
                        feature_gating_result(fn, user_id, num, key))
    /\ UNCHANGED <<accounts, nextAccountId, clients, conns, nextObj,
                   initialized, sweep, pairs, logs>>
    /\ UNCHANGED <<queueVars, managerVars>>

(* ----------------------- pair creation (api/forwarding.py) ------------- *)

(* validate_plan_limits: the count query filters on                        *)
(* ForwardingPair.is_active, which the ForwardingPair model does not       *)
(* define, so building the query raises.                                   *)
validate_plan_limits(user_id) ==
    LET existing_pairs == Raised("AttributeError")
        plan_limits == get_plan_limits(user_plan(user_id))
    IN  IF existing_pairs.raised # "none" THEN existing_pairs
        ELSE IF plan_limits.raised # "none" THEN plan_limits
        ELSE Returned([current_pairs |-> existing_pairs.value,
                       can_create |-> existing_pairs.value <
                           plan_limits.value.max_forwarding_pairs])

HttpOut(op, user_id, status, detail) ==
    [op |-> op, user_id |-> user_id, status |-> status, detail |-> detail]

(* POST /pairs create_forwarding_pair for an authenticated user            *)
create_forwarding_pair(user_id, platform_type) ==
    /\ user_id \in Users
    /\ LET limits == validate_plan_limits(user_id) IN
       IF limits.raised # "none"
       THEN /\ out' = HttpOut("create_forwarding_pair", user_id, 500,
                              limits.raised)
            /\ pairs' = pairs
       ELSE IF ~limits.value.can_create
       THEN /\ out' = HttpOut("create_forwarding_pair", user_id, 403,
                              "Plan limit reached")
            /\ pairs' = pairs
       ELSE LET can_add == can_add_forwarding_pair(user_plan(user_id),
                               limits.value.current_pairs, platform_type)
            IN  IF can_add.raised # "none"
                THEN /\ out' = HttpOut("create_forwarding_pair", user_id,
                                       500, can_add.raised)
                     /\ pairs' = pairs
                ELSE IF ~can_add.value.ok
                THEN /\ out' = HttpOut("create_forwarding_pair", user_id,
                                       403, can_add.value.message)
                     /\ pairs' = pairs
                ELSE /\ out' = HttpOut("create_forwarding_pair", user_id,
                                       500, "TypeError")
                     /\ pairs' = pairs
    /\ UNCHANGED <<accounts, nextAccountId, clients, conns, nextObj,
                   initialized, sweep, logs>>
    /\ UNCHANGED <<queueVars, managerVars>>

(* --------------------- executors (tasks/forwarding_tasks.py) ----------- *)

Keywords == {"buy", "spam"}

(* a message text, as the set of keywords it contains                      *)
Texts == SUBSET Keywords

MessageLog(forwarding_pair_id, status) ==
    [forwarding_pair_id |-> forwarding_pair_id, status |-> status]

(* _process_message_forwarding after the lazy initialize: the filters and  *)
(* the dispatch.  registered = the pair's account is in the clients dict,  *)
(* sent = the protocol call succeeds.                                      *)
_process_message_forwarding(pair, text, registered, sent) ==
    IF pair.filter_keywords # {} /\ pair.filter_keywords \cap text = {}
    THEN [skipped |-> TRUE, reason |-> "filtered", sends |-> 0,
          success |-> FALSE]
    ELSE IF pair.exclude_keywords \cap text # {}
    THEN [skipped |-> TRUE, reason |-> "excluded", sends |-> 0,
          success |-> FALSE]
    ELSE [skipped |-> FALSE, reason |-> NULL,
          sends |-> IF registered THEN 1 ELSE 0,
          success |-> registered /\ sent]

ActivePair(user_id, pair_id) ==
    /\ pair_id \in DOMAIN pairs
    /\ pairs[pair_id].user_id = user_id
    /\ pairs[pair_id].status = "active"

(* the try block of forward_message_task up to the plan check: the error   *)
(* it raises, or "none"                                                    *)
forward_precheck(user_id, pair_id) ==
    LET active == validate_plan_active(user_id) IN
    IF ~ActivePair(user_id, pair_id) THEN "ValueError"
    ELSE IF active.raised # "none" THEN active.raised
    ELSE IF ~active.value THEN "ValueError"
    ELSE "none"

TaskOut(op, user_id, pair_id, text, value, sends) ==
    [op |-> op, user_id |-> user_id, pair_id |-> pair_id, text |-> text,
     value |-> value, sends |-> sends]

(* forward_message_task run by a worker.  exhausted = request.retries has  *)
(* reached max_retries; startable, sent = outcomes of the protocol calls.  *)
forward_message_task(user_id, pair_id, text, exhausted, startable, sent) ==
    /\ IF forward_precheck(user_id, pair_id) # "none"
       THEN /\ out' = TaskOut("forward_message", user_id, pair_id, text,
                              IF exhausted THEN "failed" ELSE "retry", 0)
            /\ UNCHANGED <<clients, conns, nextObj, initialized, logs>>
       ELSE /\ LoadSessions(TaskInstance, startable)
            /\ LET pair == pairs[pair_id]
                   result == _process_message_forwarding(pair, text,
                       pair.telegram_account_id
                           \in DOMAIN clients'[TaskInstance], sent)
               IN  /\ logs' = logs \cup {MessageLog(pair_id, "success")}
                   /\ out' = TaskOut("forward_message", user_id, pair_id,
                                     text, "success", result.sends)
    /\ UNCHANGED <<accounts, nextAccountId, sweep, pairs>>
    /\ UNCHANGED <<queueVars, managerVars>>

RECURSIVE bulk_results(_, _, _)
(* the for loop of bulk_forward_task: one entry per message, in order;     *)
(* entry i is a success iff the eager forward_message_task of message i    *)
(* did not raise.                                                          *)
bulk_results(user_id, messages, i) ==
    IF messages = << >> THEN << >>
    ELSE <<[index |-> i,
            success |-> forward_precheck(user_id, Head(messages).pair_id)
                            = "none"]>>
         \o bulk_results(user_id, Tail(messages), i + 1)

(* the dict bulk_forward_task returns after the loop                       *)
BulkOut(user_id, messages, results) ==
    [op |-> "bulk_forward", user_id |-> user_id, messages |-> messages,
     value |-> "success", results |-> results,
     successful_count |->
         Cardinality({k \in DOMAIN results : results[k].success}),
     failed_count |-> Len(messages) -
         Cardinality({k \in DOMAIN results : results[k].success})]

(* the dict its outer except returns: no counts and no result list         *)
BulkError(user_id, messages) ==
    [op |-> "bulk_forward", user_id |-> user_id, messages |-> messages,
     value |-> "error", results |-> << >>]

(* bulk_forward_task                                                       *)
bulk_forward_task(user_id, messages, startable) ==
    /\ LET access == validate_bulk_operations(user_id) IN
       IF access.raised # "none" \/ ~access.value
       THEN /\ out' = BulkError(user_id, messages)
            /\ UNCHANGED <<clients, conns, nextObj, initialized, logs>>
       ELSE LET results == bulk_results(user_id, messages, 0)
                done == {k \in DOMAIN results : results[k].success}
            IN  /\ IF done = {}
                   THEN UNCHANGED <<clients, conns, nextObj, initialized>>
                   ELSE LoadSessions(TaskInstance, startable)
                /\ logs' = logs \cup
                       {MessageLog(messages[k].pair_id, "success") : k \in done}
                /\ out' = BulkOut(user_id, messages, results)
    /\ UNCHANGED <<accounts, nextAccountId, sweep, pairs>>
    /\ UNCHANGED <<queueVars, managerVars>>

MaxBulk == 2               \* messages in one bulk_forward job

BulkMessage(pair_id, text) == [pair_id |-> pair_id, text |-> text]

BulkLists ==
    UNION {[1..n -> {BulkMessage(p, t) : p \in {1, 2}, t \in {{}, {"buy"}}}] :
              n \in 0..MaxBulk}

(* the database at start-up: user 1 with a verified account and possibly a *)
(* pair that forwards from it                                              *)
PolicyInit ==
    /\ ledger = << >>
    /\ nextId = 1
    /\ broker = EmptyBag
    /\ backend = [j \in JobIds |-> NoResult]
    /\ running = << >>
    /\ revoked = {}
    /\ ret = NoRet
    /\ cleanCancelled = {}
    /\ enq = NoCall
    /\ cleaned = {}
    /\ accounts = (1 :> TelegramAccount(1, "active"))
    /\ nextAccountId = 2
    /\ pairs \in {<< >>} \cup {(1 :> p) : p \in SeedPairs}
    /\ clients = [i \in Instances |-> << >>]
    /\ conns = {}
    /\ nextObj = 1
    /\ initialized = [i \in Instances |-> FALSE]
    /\ sweep = [i \in Instances |-> << >>]
    /\ logs = {}
    /\ out = NoOut
    /\ ManagerInit

PolicyNext ==
    \/ \E plan \in TierStrings, key \in LimitKeys :
           plan_validator_call("get_plan_limits", plan, 0, key)
    \/ \E plan \in TierStrings, current_pairs \in 0..2 :
           plan_validator_call("can_add_forwarding_pair", plan,
                               current_pairs, NULL)
    \/ \E plan \in TierStrings, feature \in PlanFeatureKeys :
           plan_validator_call("can_use_feature", plan, 0, feature)
    \/ \E u \in Users \cup {0},
          fn \in {"get_user_plan", "validate_forwarding_pair_creation",
                  "_get_plan_priority"} :
           feature_gating_call(fn, u, 0, NULL)
    \/ \E u \in Users \cup {0}, feature \in FeatureType :
           feature_gating_call("check_feature_access", u, 0, feature)
    \/ \E u \in Users \cup {0}, requested_priority \in 0..4 :
           feature_gating_call("validate_queue_priority", u,
                               requested_priority, NULL)
    \/ \E u \in Users, platform_type \in Platforms :
           create_forwarding_pair(u, platform_type)
    \/ \E u \in Users \cup {0}, p \in {1, 2}, text \in Texts,
          exhausted, sent \in BOOLEAN, startable \in SUBSET {1} :
           forward_message_task(u, p, text, exhausted, startable, sent)
    \/ \E u \in Users \cup {0}, messages \in BulkLists,
          startable \in SUBSET {1} :
           bulk_forward_task(u, messages, startable)

PolicySpec == PolicyInit /\ [][PolicyNext]_vars

(* ------------------- claims on accounts and sessions ------------------- *)

LiveConnections(a) == {c \in conns : c.account_id = a}

(* C11: in every reachable state each linked account has at most one live  *)
(* protocol connection, over start-up load, verification, restart, health  *)
(* reconnects and the initialisation of both SessionManager instances of a *)
(* worker process.                                                         *)
C11_Claim == \A a \in AcctIds : Cardinality(LiveConnections(a)) <= 1

RemoveCall(a) == out'.op = "remove_account" /\ out'.id = a

(* C12: remove_account on an existing account, whether closing its session *)
(* succeeds or raises, does not propagate the close error, leaves the      *)
(* account out of the registry and leaves its status inactive.             *)
C12_Claim ==
    [][\A a \in AcctIds :
          (HasAccount(a) /\ RemoveCall(a)) =>
              /\ out'.value # "raise"
              /\ a \notin DOMAIN clients'[out'.inst]
              /\ accounts'[a].status = "inactive"]_vars

Referenced(a) ==
    \E p \in DOMAIN pairs : pairs[p].telegram_account_id = a

Removal(a) ==
    /\ out'.id = a
    /\ \/ out'.op = "remove_account" /\ out'.value = "true"
       \/ out'.op = "delete_session" /\ out'.value = "success"

(* C13: removing an account that a forwarding pair references never        *)
(* deletes the account row and never deletes or changes a pair: afterwards *)
(* the row exists with status inactive and every pair row is as before.    *)
C13_Claim ==
    [][\A a \in AcctIds :
          (HasAccount(a) /\ Referenced(a) /\ Removal(a)) =>
              /\ a \in DOMAIN accounts'
              /\ accounts'[a].status = "inactive"
              /\ pairs' = pairs]_vars

(* entries the sweep of instance i still has to check before this step     *)
Pending(i) ==
    IF sweep[i] = << >> THEN Cardinality(DOMAIN clients[i])
    ELSE Len(sweep[i])

HealthStep == out'.op = "health_check"

(* C14: in a health sweep a session whose liveness call and single         *)
(* reconnect both failed ends up out of the registry with its account      *)
(* disconnected, a session whose liveness call or reconnect succeeded      *)
(* stays in the registry with its account untouched, and the sweep goes on *)
(* to the remaining sessions whatever happened to this one.                *)
C14_Claim ==
    [][HealthStep =>
          LET a == out'.id
              i == out'.inst
          IN  /\ out'.value \in {"removed", "KeyError"} =>
                    /\ a \notin DOMAIN clients'[i]
                    /\ HasAccount(a) => accounts'[a].status = "disconnected"
              /\ out'.value \in {"alive", "reconnected"} =>
                    /\ a \in DOMAIN clients'[i]
                    /\ accounts' = accounts
              /\ Len(sweep'[i]) = Pending(i) - 1]_vars

ActiveOf(u) == {a \in ActiveAccounts : accounts[a].user_id = u}

(* C15: over any sequence of add_account, verify_account and               *)
(* remove_account the number of a user's active accounts never exceeds the *)
(* cap, and add_account performs no handshake once the cap is reached.     *)
C15_Claim ==
    /\ [](\A u \in Users : Cardinality(ActiveOf(u)) <= max_telegram_accounts(u))
    /\ [][(out'.op = "add_account" /\ out'.value = "limit reached")
              => ~out'.handshake]_vars

Healthy(i, a) == a \in DOMAIN clients[i] /\ clients[i][a] \in conns

(* C19: a send or forward request for a registered healthy account uses    *)
(* the registered session with no connect or handshake, so repeating it    *)
(* changes nothing; for an account with no registered session it attempts  *)
(* a fresh connect before it reports failure.                              *)
C19_Claim ==
    [][out'.op = "send_message" =>
          LET a == out'.id
              i == out'.inst
          IN  /\ Healthy(i, a) =>
                    /\ clients' = clients
                    /\ conns' = conns
                    /\ ~out'.handshake
              /\ a \notin DOMAIN clients[i] => out'.handshake]_vars

(* --------------------- claims on policy and executors ------------------ *)

Filtered(pair, text) ==
    \/ pair.filter_keywords # {} /\ pair.filter_keywords \cap text = {}
    \/ pair.exclude_keywords \cap text # {}

(* C16: a forward-message job whose text the pair's keyword filters reject *)
(* issues no send or forward request, ends skipped rather than failed, and *)
(* writes no message-log row with status success.                          *)
C16_Claim ==
    [][(/\ out'.op = "forward_message"
        /\ ActivePair(out'.user_id, out'.pair_id)
        /\ Filtered(pairs[out'.pair_id], out'.text)) =>
           /\ out'.sends = 0
           /\ out'.value \notin {"retry", "failed"}
           /\ \A row \in logs' \ logs : row.status # "success"]_vars

FiniteTiers == {"free", "pro"}

AtPairLimit(u) ==
    /\ user_plan(u) \in FiniteTiers
    /\ _get_current_usage(u) = PLAN_LIMITS(user_plan(u)).max_forwarding_pairs

(* C17: a user of a tier with a finite pair limit L who has L active pairs *)
(* and creates another gets a validation error naming the pair-count       *)
(* limit, the stored pairs stay as they are and no job is enqueued; and    *)
(* the free tier's L is 1 in every component that evaluates the limit.     *)
C17_Claim ==
    [][(out'.op = "create_forwarding_pair" /\ AtPairLimit(out'.user_id)) =>
          /\ out'.status = 403
          /\ out'.detail \in {"Plan limit reached", "pair limit"}
          /\ pairs' = pairs
          /\ broker' = broker
          /\ ledger' = ledger
          /\ PLAN_LIMITS("free").max_forwarding_pairs = 1
          /\ max_forwarding_pairs("free") = 1]_vars

PlanValidatorFns == {"get_plan_limits", "can_add_forwarding_pair",
                     "can_use_feature"}

(* the call recorded in out was made for a tier outside free, pro, elite   *)
UnknownTierCall ==
    /\ out.op = "policy"
    /\ out.plan # NULL
    /\ lower(out.plan) \notin PlanType

(* what the same call returns for the free tier (user 1 is a free user)    *)
FreeTierResult ==
    IF out.fn \in PlanValidatorFns
    THEN plan_validator_result(out.fn, "free", out.num, out.key)
    ELSE feature_gating_result(out.fn, 1, out.num, out.key)

(* C18: for a tier string other than free, pro and elite every policy      *)
(* function returns what it returns for the free tier and does not raise.  *)
C18_Claim ==
    UnknownTierCall =>
        /\ out.raised = "none"
        /\ FreeTierResult.raised = "none"
        /\ out.ok = FreeTierResult.ok
        /\ out.limit = FreeTierResult.limit
        /\ out.detail = FreeTierResult.detail

HasBulkOperations(u) ==
    u \in Users /\ "bulk_operations" \in plan_features(get_user_plan(u))

(* C20: bulk forward dispatches nothing for a user without the             *)
(* bulk-operations feature; for a user with it and a list of N messages    *)
(* the result list has N entries, entry i describing message i, and        *)
(* successful_count + failed_count = N.                                    *)
C20_Claim ==
    [][out'.op = "bulk_forward" =>
          LET N == Len(out'.messages) IN
          IF HasBulkOperations(out'.user_id)
          THEN /\ out'.value = "success"
               /\ Len(out'.results) = N
               /\ \A k \in 1..N : out'.results[k].index = k - 1
               /\ out'.successful_count + out'.failed_count = N
          ELSE /\ out'.results = << >>
               /\ logs' = logs]_vars

(* ------------------ claims on the queue, second part -------------------- *)

Bands == {"low_priority", "medium_priority", "high_priority"}

SubmittedTo(j) == {m.queue : m \in {x \in BagToSet(broker) : x.task_id = j}}

(* C21: every ledger row enqueue creates has a priority in {1, 2, 3},      *)
(* whatever priority the caller supplied, and the broker band a job is     *)
(* submitted to is the one its row's stored priority names.                *)
C21_Claim ==
    \A j \in DOMAIN ledger :
        /\ Row(j).priority \in {1, 2, 3}
        /\ \A q \in SubmittedTo(j) : q = BandOf(Row(j).priority)

(* Enqueueing with an unreliable hand-over: the broker may refuse the      *)
(* message and the enqueueing process may die after the ledger commit.     *)
(* retry(job_id) is called again and again, a worker is available, time    *)
(* passes and the Queue Monitor loop keeps ticking.                        *)
OrphanNext ==
    \/ \E mr \in 0..MaxRetriesArg :
          enqueue_task(3, "forward_message", NoPriority, mr)
    \/ \E up \in BOOLEAN : enqueue_send_task(up)
    \/ EnqueueCrash
    \/ \E id \in KnownIds : retry_failed_task(id, TRUE)
    \/ \E w \in Workers, m \in AllMsgs : Claim(w, m)
    \/ \E w \in Workers, o \in {"return", "raise", "killed"} : Finish(w, o)
    \/ \E id \in JobIds : ResultExpire(id)
    \/ \E d \in ClockSteps : AdvanceClock(d)
    \/ \E hourly \in BOOLEAN : MonitorTick(hourly)

OrphanSpec ==
    /\ Init
    /\ [][OrphanNext]_vars
    /\ WF_vars(\E id \in KnownIds : retry_failed_task(id, TRUE))
    /\ WF_vars(\E w \in Workers, m \in AllMsgs : Claim(w, m))
    /\ WF_vars(\E w \in Workers, o \in {"return", "raise", "killed"} :
                  Finish(w, o))
    /\ WF_vars(\E d \in ClockSteps : AdvanceClock(d))
    /\ WF_vars(MonitorTick(FALSE))
    /\ WF_vars(MonitorTick(TRUE))

(* a pending row whose job no enqueue call, broker or worker holds        *)
Orphaned(j) ==
    /\ RowIn(j, {"pending"})
    /\ enq = NoCall
    /\ j \notin MsgIds
    /\ \A w \in DOMAIN running : running[w].task_id # j

(* C22: a job whose row was persisted pending but which never reached the  *)
(* broker eventually leaves pending, through retry(job_id) or an           *)
(* automatic action.                                                       *)
C22_Claim == \A j \in JobIds : Orphaned(j) ~> ~RowIn(j, {"pending"})

(* executions of job j's handler that the messages in flight prove: a      *)
(* message delivered with request.retries = r is run number r + 1 at least *)
RunsProved(j) ==
    LET rs == {running[w].retries :
                  w \in {x \in DOMAIN running : running[x].task_id = j}}
    IN  IF rs = {} THEN 0
        ELSE 1 + CHOOSE r \in rs : \A q \in rs : q <= r

(* C23: the handler of a job is executed at most max_retries + 1 times,    *)
(* automatic retries and resubmissions by retry(job_id) included, and each *)
(* re-execution is matched by a retry_count increment in the ledger.       *)
C23_Claim ==
    \A j \in DOMAIN ledger :
        /\ RunsProved(j) <= Row(j).max_retries + 1
        /\ RunsProved(j) <= Row(j).retry_count + 1

(* ---------------- claims on the executors, second part ------------------ *)

(* the error forward_message_task stops with is one of the permanent ones  *)
(* it raises itself: pair not found or not active, plan expired            *)
PermanentError(user_id, pair_id) ==
    forward_precheck(user_id, pair_id) = "ValueError"

(* C24: when forward_message fails with a non-transient error (pair not    *)
(* found or not active, plan expired, ...) the job fails immediately and   *)
(* the handler is not executed again; only transient errors are retried.   *)
C24_Claim ==
    [][(out'.op = "forward_message"
          /\ PermanentError(out'.user_id, out'.pair_id)) =>
       out'.value = "failed"]_vars

(* cleanup_task as the beat schedule runs it (cleanup_type "old_tasks"):   *)
(* the queue_tasks delete of the executor body.                            *)
cleanup_task(days_old) ==
    /\ LET cutoff_date == now - days_old * 24 * 60
           keep == {id \in DOMAIN ledger :
                       ~(/\ ledger[id].created_at < cutoff_date
                         /\ ledger[id].status \in {"completed", "failed"})}
       IN  ledger' = [id \in keep |-> ledger[id]]
    /\ cleaned' = cleaned \cup ((DOMAIN ledger) \ (DOMAIN ledger'))
    /\ ret' = NoRet
    /\ UNCHANGED <<nextId, broker, backend, running, revoked,
                   cleanCancelled, enq>>
    /\ UNCHANGED <<platformVars, managerVars>>

(* the queue with both cleanups: the monitor's and the beat-scheduled one  *)
CleanupNext ==
    \/ Next
    \/ cleanup_task(RetentionDays)

CleanupSpec == Init /\ [][CleanupNext]_vars

Deleted == (DOMAIN ledger) \ (DOMAIN ledger')

PastRetention(j) == now - Row(j).created_at > RetentionMinutes

(* C26: no cleanup deletes a row that is pending or processing or was      *)
(* created within the retention window, and a run of the cleanup executor  *)
(* deletes every completed, failed or cancelled row older than the window. *)
C26_Claim ==
    [][/\ (\E hourly \in BOOLEAN : MonitorTick(hourly)) =>
             \A j \in Deleted :
                 /\ _check_stuck_tasks(ledger)[j].status \in Terminal
                 /\ PastRetention(j)
       /\ cleanup_task(RetentionDays) =>
             /\ \A j \in Deleted :
                    Row(j).status \in Terminal /\ PastRetention(j)
             /\ \A j \in DOMAIN ledger :
                    (Row(j).status \in Terminal /\ PastRetention(j)) =>
                        j \in Deleted]_vars

(* the safety half of C26 alone *)
C26_Safety ==
    [][/\ (\E hourly \in BOOLEAN : MonitorTick(hourly)) =>
             \A j \in Deleted :
                 /\ _check_stuck_tasks(ledger)[j].status \in Terminal
                 /\ PastRetention(j)
       /\ cleanup_task(RetentionDays) =>
             \A j \in Deleted :
                 Row(j).status \in Terminal /\ PastRetention(j)]_vars

(* -------------- claims on accounts and sessions, second part ------------ *)

(* the next snapshot entry of instance i's sweep belongs to an account     *)
(* that remove_account took out of the registry after the snapshot         *)
StaleEntry(i) ==
    /\ sweep[i] # << >>
    /\ LET a == Head(sweep[i]).account_id
       IN  /\ HasAccount(a)
           /\ accounts[a].status = "inactive"
           /\ a \notin DOMAIN clients[i]

(* C27: when remove_account(id) completes while a health sweep that        *)
(* snapshotted the registry earlier is still running, the sweep leaves the *)
(* account out of the registry, opens no connection for it and leaves its  *)
(* status inactive.                                                        *)
C27_Claim ==
    [][\A i \in Instances :
          (StaleEntry(i) /\ out'.op = "health_check" /\ out'.inst = i) =>
              LET c == Head(sweep[i])
                  a == c.account_id
              IN  /\ c \notin conns'
                  /\ a \notin DOMAIN clients'[i]
                  /\ accounts'[a].status = "inactive"]_vars

(* ------------------- retry_failed_task, step by step -------------------- *)

(* retry_failed_task of caller c up to its checks: the row is loaded into  *)
(* the caller's own database session and tested; no lock is taken.        *)
retry_read(c, task_id) ==
    /\ c \notin DOMAIN retrying
    /\ IF ~HasRow(task_id)
          \/ ledger[task_id].status # "failed"
          \/ ledger[task_id].retry_count >= ledger[task_id].max_retries
       THEN /\ ret' = Ret("retry", task_id, "false")
            /\ retrying' = retrying
       ELSE /\ ret' = NoRet
            /\ retrying' = [x \in (DOMAIN retrying) \cup {c} |->
                   IF x = c THEN [task_id |-> task_id, task |-> ledger[task_id]]
                   ELSE retrying[x]]
    /\ UNCHANGED <<ledger, nextId, broker, backend, running, revoked,
                   cleanCancelled, enq, cleaned>>
    /\ UNCHANGED <<platformVars, qm, loops>>

(* the rest of the call: the values computed from the loaded row are       *)
(* written by db.commit(), then send_task resubmits the job.  A row that   *)
(* is gone makes the flush fail; brokerUp = FALSE: send_task raises.       *)
retry_commit(c, brokerUp) ==
    /\ c \in DOMAIN retrying
    /\ LET task_id == retrying[c].task_id
           task == retrying[c].task
       IN  IF ~HasRow(task_id)
           THEN /\ ret' = Ret("retry", task_id, "false")
                /\ UNCHANGED <<ledger, broker>>
           ELSE /\ ledger' = [ledger EXCEPT ![task_id] =
                       [@ EXCEPT !.status = "pending",
                                 !.retry_count = task.retry_count + 1,
                                 !.error_message = NULL]]
                /\ IF brokerUp
                   THEN /\ broker' = broker (+) SetToBag(
                               {Msg(task_id, task.task_type,
                                    queue_names(task.priority), 0)})
                        /\ ret' = Ret("retry", task_id, "true")
                   ELSE /\ broker' = broker
                        /\ ret' = Ret("retry", task_id, "false")
    /\ retrying' = [x \in (DOMAIN retrying) \ {c} |-> retrying[x]]
    /\ UNCHANGED <<nextId, backend, running, revoked, cleanCancelled, enq,
                   cleaned>>
    /\ UNCHANGED <<platformVars, qm, loops>>

(* jobs that fail and are retried by callers in several processes          *)
RaceNext ==
    \/ \E mr \in 0..MaxRetriesArg :
          enqueue_task(2, "forward_message", NoPriority, mr)
    \/ enqueue_send_task(TRUE)
    \/ \E w \in Workers, m \in AllMsgs : Claim(w, m)
    \/ \E w \in Workers, o \in {"return", "raise", "killed"} : Finish(w, o)
    \/ \E d \in ClockSteps : AdvanceClock(d)
    \/ \E hourly \in BOOLEAN : MonitorTick(hourly)
    \/ \E c \in Callers, id \in KnownIds : retry_read(c, id)
    \/ \E c \in Callers, up \in BOOLEAN : retry_commit(c, up)

RaceSpec == Init /\ [][RaceNext]_vars

(* messages of job j that are outstanding: held by the broker or executed  *)
Outstanding(j) ==
    LET held == {m \in BagToSet(broker) : m.task_id = j}
        Sum[S \in SUBSET held] ==
            IF S = {} THEN 0
            ELSE LET m == CHOOSE x \in S : TRUE
                 IN  CopiesIn(m, broker) + Sum[S \ {m}]
    IN  Sum[held] +
        Cardinality({w \in DOMAIN running : running[w].task_id = j})

Resubmits(c) ==
    /\ c \in DOMAIN retrying
    /\ c \notin DOMAIN retrying'
    /\ broker' # broker

(* C28: when retry(job_id) calls for the same failed job interleave, the   *)
(* job is resubmitted at most once per retry_count increment and no two    *)
(* messages of one job are outstanding at once.                            *)
C28_Claim ==
    /\ [](\A j \in JobIds : Outstanding(j) <= 1)
    /\ [][\A c \in Callers : Resubmits(c) =>
             LET j == retrying[c].task_id
             IN  ledger'[j].retry_count = ledger[j].retry_count + 1]_vars

(* ------------------ manager start-up and shutdown ----------------------- *)

(* QueueManager.initialize of caller c up to its first await: the          *)
(* _initialized test.                                                      *)
qm_initialize_begin(c) ==
    /\ c \notin qm.entering
    /\ IF qm.initialized
       THEN /\ qm' = qm
            /\ out' = Out("qm_initialize", 0, c, "noop", FALSE)
       ELSE /\ qm' = [qm EXCEPT !.entering = @ \cup {c}]
            /\ out' = NoOut
    /\ UNCHANGED <<accounts, nextAccountId, clients, conns, nextObj,
                   initialized, sweep, pairs, logs>>
    /\ UNCHANGED <<queueVars, retrying, loops>>

(* the rest of the call after the awaits of _initialize_redis (whose       *)
(* errors are swallowed), _initialize_celery and _create_queues: the       *)
(* monitor task is created and _initialized is set.  celery_ok = FALSE:    *)
(* _initialize_celery raises and the call re-raises.                       *)
qm_initialize_end(c, celery_ok) ==
    /\ c \in qm.entering
    /\ IF celery_ok
       THEN /\ loops.monitor < MaxLoops
            /\ loops' = [loops EXCEPT !.monitor = @ + 1]
            /\ qm' = [initialized |-> TRUE, entering |-> qm.entering \ {c}]
            /\ out' = Out("qm_initialize", 0, c, "started", FALSE)
       ELSE /\ loops' = loops
            /\ qm' = [qm EXCEPT !.entering = @ \ {c}]
            /\ out' = Out("qm_initialize", 0, c, "raise", FALSE)
    /\ UNCHANGED <<accounts, nextAccountId, clients, conns, nextObj,
                   initialized, sweep, pairs, logs>>
    /\ UNCHANGED <<queueVars, retrying>>

(* QueueManager.cleanup.  closed = FALSE: redis_client.close raises, the   *)
(* error is logged and _initialized keeps its value.                       *)
qm_cleanup(closed) ==
    /\ qm' = IF closed THEN [qm EXCEPT !.initialized = FALSE] ELSE qm
    /\ out' = Out("qm_cleanup", 0, 0, IF closed THEN "done" ELSE "error",
                  FALSE)
    /\ UNCHANGED <<accounts, nextAccountId, clients, conns, nextObj,
                   initialized, sweep, pairs, logs>>
    /\ UNCHANGED <<queueVars, retrying, loops>>

(* SessionManager.cleanup -> TelegramClient.cleanup: every client is       *)
(* stopped (an error of stop() is logged), the dict is cleared and         *)
(* _initialized is reset.  stoppable = accounts whose client.stop()        *)
(* succeeds.                                                               *)
cleanup(i, stoppable) ==
    /\ conns' = conns \ {clients[i][a] : a \in (DOMAIN clients[i]) \cap stoppable}
    /\ clients' = [clients EXCEPT ![i] = << >>]
    /\ initialized' = [initialized EXCEPT ![i] = FALSE]
    /\ out' = Out("cleanup", i, 0, "done", FALSE)
    /\ UNCHANGED <<accounts, nextAccountId, nextObj, sweep, pairs, logs>>
    /\ UNCHANGED <<queueVars, managerVars>>

(* start-up and shutdown calls on the managers of one process              *)
LoopNext ==
    \/ \E c \in Callers : qm_initialize_begin(c)
    \/ \E c \in Callers, celery_ok \in BOOLEAN : qm_initialize_end(c, celery_ok)
    \/ \E closed \in BOOLEAN : qm_cleanup(closed)
    \/ \E i \in Instances, startable \in SUBSET AcctIds :
           initialize(i, startable)
    \/ \E i \in Instances, stoppable \in SUBSET AcctIds :
           cleanup(i, stoppable)

LoopSpec == SessionInit /\ [][LoopNext]_vars

(* C29: over every sequence and interleaving of initialize() and cleanup() *)
(* calls at most one queue-monitor loop and at most one health-check loop  *)
(* per platform client is running, and after cleanup() none is running.    *)
C29_Claim ==
    /\ [](loops.monitor <= 1 /\ \A i \in Instances : loops.health[i] <= 1)
    /\ [][/\ (out'.op = "qm_cleanup" /\ out'.value = "done") =>
                loops'.monitor = 0
          /\ out'.op = "cleanup" => loops'.health[out'.inst] = 0]_vars

(* ---------------- the two plan-policy implementations ------------------- *)

(* FeatureGating._load_plan_limits: the pair and account limits of a tier  *)
plan_limits(plan) ==
    [max_forwarding_pairs |-> max_forwarding_pairs(plan),
     max_telegram_accounts |->
         CASE plan = "free" -> 1 [] plan = "pro" -> 3 [] plan = "elite" -> 10,
     max_discord_accounts |->
         CASE plan = "free" -> 1 [] plan = "pro" -> 3 [] plan = "elite" -> 10]

ComparedFeatures == {"copy_mode", "api_access"}

PlanValidatorAnswer(fn) ==
    /\ out.op = "policy"
    /\ out.fn = fn
    /\ out.plan \in PlanType
    /\ out.raised = "none"

(* C30: for every tier FeatureGating and PlanValidator give the same       *)
(* maximum forwarding pairs, the same maximum Telegram and Discord         *)
(* accounts and the same answer for copy mode and API access.              *)
C30_Claim ==
    /\ PlanValidatorAnswer("get_plan_limits") =>
           out.limit = plan_limits(out.plan)[out.key]
    /\ (PlanValidatorAnswer("can_use_feature")
          /\ out.key \in ComparedFeatures) =>
           out.ok = (out.key \in plan_features(out.plan))

====
